---- MODULE Spec2Model ----
(***************************************************************************)
(* Model of the sphinx_seo_redirect extension (src/sphinx_seo_redirect).   *)
(*                                                                         *)
(* Python strings are sequences of one-character strings, so that split,   *)
(* removesuffix, removeprefix, startswith and rstrip are computed the way  *)
(* the code computes them.  Python dicts are insertion-ordered: a dict is  *)
(* a sequence of records [k |-> key, v |-> value] with pairwise distinct   *)
(* keys, in insertion order.                                               *)
(***************************************************************************)
EXTENDS Integers, Sequences, FiniteSets, TLC

VARIABLES
    confpy,     \* the values the project's conf.py gives (input of the build)
    config,     \* app.config: option name -> value
    all_docs,   \* app.env.all_docs: the documents of the build
    env,        \* attributes the extension sets on app.env: name -> value
    pc,         \* position of the host in the build's hook sequence
    call,       \* the last hook call: its arguments and what it returned
    copied,     \* copyfile(source, target) calls made by build_finished
    resolved,   \* the documents the host has resolved: docname -> doctree
    pure        \* the last pure-function application (compute / build_js)

vars == <<confpy, config, all_docs, env, pc, call, copied, resolved, pure>>

-----------------------------------------------------------------------------
(* Bounds *)

\* largest number of entries of the redirects option given to compute_redirects
MaxEntries == 2
\* largest number of entries of the redirects option of a modelled build
MaxBuildEntries == 2
\* largest number of recorded redirect targets at which the host still purges
\* a document to read it again
MaxRecorded == 3

-----------------------------------------------------------------------------
(* Python str *)

HASH  == "#"
SLASH == "/"
COMMA == ","
QUOTE == "\""
COLON == ":"

DOT_HTML == <<".", "h", "t", "m", "l">>

\* s.startswith(p)
StartsWith(s, p) ==
    /\ Len(p) <= Len(s)
    /\ SubSeq(s, 1, Len(p)) = p

\* s.endswith(p)
EndsWith(s, p) ==
    /\ Len(p) <= Len(s)
    /\ SubSeq(s, Len(s) - Len(p) + 1, Len(s)) = p

\* s.removeprefix(p)
RemovePrefix(s, p) ==
    IF StartsWith(s, p) THEN SubSeq(s, Len(p) + 1, Len(s)) ELSE s

\* s.removesuffix(p)
RemoveSuffix(s, p) ==
    IF EndsWith(s, p) THEN SubSeq(s, 1, Len(s) - Len(p)) ELSE s

\* s.split(c) for a one-character separator c: always at least one token
RECURSIVE SplitFrom(_, _, _, _)
SplitFrom(s, c, i, cur) ==
    IF i > Len(s) THEN <<cur>>
    ELSE IF s[i] = c THEN <<cur>> \o SplitFrom(s, c, i + 1, <<>>)
    ELSE SplitFrom(s, c, i + 1, Append(cur, s[i]))

Split(s, c) == SplitFrom(s, c, 1, <<>>)

\* s.rstrip(c) for a one-character set c: every trailing c is removed
RECURSIVE RStrip(_, _)
RStrip(s, c) ==
    IF Len(s) > 0 /\ s[Len(s)] = c THEN RStrip(SubSeq(s, 1, Len(s) - 1), c)
    ELSE s

-----------------------------------------------------------------------------
(* Python dict, insertion-ordered *)

EmptyDict == <<>>

DictKeySet(d) == {d[i].k : i \in 1..Len(d)}

DictHas(d, key) == key \in DictKeySet(d)

DictIndex(d, key) == CHOOSE i \in 1..Len(d) : d[i].k = key

\* d[key]
DictGet(d, key) == d[DictIndex(d, key)].v

\* d[key] = val: an existing key keeps its position, a new key goes last
DictSet(d, key, val) ==
    IF DictHas(d, key)
    THEN [d EXCEPT ![DictIndex(d, key)] = [k |-> key, v |-> val]]
    ELSE Append(d, [k |-> key, v |-> val])

\* d.pop(key)
DictPop(d, key) == SelectSeq(d, LAMBDA e : e.k # key)

\* list(d.keys())
DictKeys(d) == [i \in 1..Len(d) |-> d[i].k]

\* the dict as a mapping, order forgotten (Python's dict equality)
DictAsMap(d) == [key \in DictKeySet(d) |-> DictGet(d, key)]

-----------------------------------------------------------------------------
(* sphinx.py: constants *)

\* DEFAULT_PAGE = "-"
DEFAULT_PAGE == <<"-">>

\* OPTION_REDIRECTS_DEFAULT = dict()
OPTION_REDIRECTS_DEFAULT == EmptyDict
\* URL_PATH_PREFIX_DEFAULT = ""
URL_PATH_PREFIX_DEFAULT == <<>>
\* WRITE_EXTENSIONLESS_PAGES_DEFAULT = False
WRITE_EXTENSIONLESS_PAGES_DEFAULT == FALSE

\* CTX_FRAGMENT_REDIRECTS = "fragment_redirects", as the characters of the
\* JavaScript text build_js_object writes
CTX_FRAGMENT_REDIRECTS_TEXT ==
    <<"f", "r", "a", "g", "m", "e", "n", "t", "_",
      "r", "e", "d", "i", "r", "e", "c", "t", "s">>

-----------------------------------------------------------------------------
(* sphinx.py: compute_redirects *)

\* compute_redirects_entry with the fragment key set only when it is not yet
\* in the page's map (the first source of a page and key decides)
compute_redirects_entry_first_wins(acc, source, value, html_baseurl, url_path_prefix) ==
    LET tokens == Split(source, HASH) IN
    IF Len(tokens) > 2 THEN acc
    ELSE
    LET pagename == RemoveSuffix(tokens[1], DOT_HTML)
        fragment == IF Len(tokens) = 2
                    THEN RemoveSuffix(tokens[2], DOT_HTML)
                    ELSE <<>>
    IN
    IF pagename = <<>> THEN acc
    ELSE
    LET seen   == IF DictHas(acc, pagename) THEN acc
                  ELSE DictSet(acc, pagename, EmptyDict)
        target == RemovePrefix(value, html_baseurl)
    IN
    IF target = <<>> THEN seen
    ELSE
    LET prefixed == IF url_path_prefix # <<>> /\ StartsWith(target, <<SLASH>>)
                    THEN url_path_prefix \o target
                    ELSE target
        key      == IF fragment = <<>> THEN DEFAULT_PAGE ELSE fragment
    IN
    IF DictHas(DictGet(seen, pagename), key) THEN seen
    ELSE DictSet(seen, pagename, DictSet(DictGet(seen, pagename), key, prefixed))

\* compute_redirects_entry with url_path_prefix put before the target first and
\* the html_baseurl prefix removed afterwards
compute_redirects_entry_prefix_first(acc, source, value, html_baseurl, url_path_prefix) ==
    LET tokens == Split(source, HASH) IN
    IF Len(tokens) > 2 THEN acc
    ELSE
    LET pagename == RemoveSuffix(tokens[1], DOT_HTML)
        fragment == IF Len(tokens) = 2
                    THEN RemoveSuffix(tokens[2], DOT_HTML)
                    ELSE <<>>
    IN
    IF pagename = <<>> THEN acc
    ELSE
    LET seen     == IF DictHas(acc, pagename) THEN acc
                    ELSE DictSet(acc, pagename, EmptyDict)
        prefixed == IF url_path_prefix # <<>> /\ StartsWith(value, <<SLASH>>)
                    THEN url_path_prefix \o value
                    ELSE value
        target   == RemovePrefix(prefixed, html_baseurl)
        key      == IF fragment = <<>> THEN DEFAULT_PAGE ELSE fragment
    IN
    IF target = <<>> THEN seen
    ELSE DictSet(seen, pagename, DictSet(DictGet(seen, pagename), key, target))

\* One pass of the loop over redirects_option.keys(): acc is computed_redirects
\* before the pass, source the key, value redirects_option[source].
compute_redirects_entry(acc, source, value, html_baseurl, url_path_prefix) ==
    LET tokens == Split(source, HASH) IN
    IF Len(tokens) > 2 THEN acc                    \* invalid redirect
    ELSE
    LET pagename == RemoveSuffix(tokens[1], DOT_HTML)
        fragment == IF Len(tokens) = 2
                    THEN RemoveSuffix(tokens[2], DOT_HTML)
                    ELSE <<>>
    IN
    IF pagename = <<>> THEN acc                    \* empty page name
    ELSE
    LET seen   == IF DictHas(acc, pagename) THEN acc
                  ELSE DictSet(acc, pagename, EmptyDict)
        target == RemovePrefix(value, html_baseurl)
    IN
    IF target = <<>> THEN seen                     \* empty target
    ELSE
    LET prefixed == IF url_path_prefix # <<>> /\ StartsWith(target, <<SLASH>>)
                    THEN url_path_prefix \o target
                    ELSE target
        key      == IF fragment = <<>> THEN DEFAULT_PAGE ELSE fragment
    IN
    DictSet(seen, pagename, DictSet(DictGet(seen, pagename), key, prefixed))

RECURSIVE compute_redirects_loop(_, _, _, _, _)
compute_redirects_loop(acc, redirects_option, i, html_baseurl, url_path_prefix) ==
    IF i > Len(redirects_option) THEN acc
    ELSE compute_redirects_loop(
             compute_redirects_entry(acc, redirects_option[i].k,
                                     redirects_option[i].v,
                                     html_baseurl, url_path_prefix),
             redirects_option, i + 1, html_baseurl, url_path_prefix)

\* compute_redirects without the removal of the pages left with no entry
remove_empty_keys_skipped(computed) == computed

\* "remove empty keys from the map"
remove_empty_keys(computed) == SelectSeq(computed, LAMBDA e : Len(e.v) # 0)

\* compute_redirects(app, redirects_option), with the two options it reads
\* from app.config as parameters
compute_redirects(redirects_option, cfg_html_baseurl, cfg_url_path_prefix) ==
    LET html_baseurl    == RemoveSuffix(cfg_html_baseurl, <<SLASH>>)
        url_path_prefix == RemoveSuffix(cfg_url_path_prefix, <<SLASH>>)
    IN remove_empty_keys(
           compute_redirects_loop(EmptyDict, redirects_option, 1,
                                  html_baseurl, url_path_prefix))

-----------------------------------------------------------------------------
(* sphinx.py: build_js_object *)

JS_HEAD ==
    <<"c", "o", "n", "s", "t", " ">> \o CTX_FRAGMENT_REDIRECTS_TEXT \o
    <<" ", "=", " ", "O", "b", "j", "e", "c", "t", ".",
      "f", "r", "e", "e", "z", "e", "(", "{">>

JS_TAIL == <<"}", ")", ";">>

\* the text the loop appends for one key: '"' + frag + '":"' + pagemap[frag] + '",'
js_pair(frag, target) ==
    <<QUOTE>> \o frag \o <<QUOTE, COLON, QUOTE>> \o target \o <<QUOTE, COMMA>>

RECURSIVE js_pairs(_, _)
js_pairs(pagemap, i) ==
    IF i > Len(pagemap) THEN <<>>
    ELSE js_pair(pagemap[i].k, pagemap[i].v) \o js_pairs(pagemap, i + 1)

\* build_js_object without the rstrip(",")
build_js_object_no_rstrip(pagemap) ==
    JS_HEAD \o js_pairs(pagemap, 1) \o JS_TAIL

build_js_object(pagemap) ==
    RStrip(JS_HEAD \o js_pairs(pagemap, 1), COMMA) \o JS_TAIL

-----------------------------------------------------------------------------
(* Inputs *)

\* every dict with at most n entries, keys from K and values from V
DictsUpTo(K, V, n) ==
    UNION { { d \in [1..m -> [k : K, v : V]] :
                \A i, j \in 1..m : d[i].k = d[j].k => i = j } : m \in 0..n }

\* source keys of the redirects option: a page, a page with a fragment, with
\* and without ".html", an empty page, an empty fragment, two '#'
Sources ==
    { <<"a">>,                                      \* a
      <<"a">> \o DOT_HTML,                          \* a.html
      <<"a">> \o DOT_HTML \o DOT_HTML,              \* a.html.html
      <<"a", "#", "f">>,                            \* a#f
      <<"a">> \o DOT_HTML \o <<"#", "f">> \o DOT_HTML,  \* a.html#f.html
      <<"a", "#">>,                                 \* a#
      <<"b", "#", "f">>,                            \* b#f
      <<>>,                                         \* (empty)
      DOT_HTML \o <<"#", "f">>,                     \* .html#f
      <<"a", "#", "f", "#", "g">> }                 \* a#f#g

\* targets: relative, rooted, under html_baseurl, html_baseurl itself, empty
Targets ==
    { <<"t">>, <<"/", "t">>, <<"h", "/", "t">>, <<"h">>, <<>> }

\* values of html_baseurl and of url_path_prefix
BaseUrls     == { <<>>, <<"h", "/">> }
PathPrefixes == { <<>>, <<"/", "p", "/">> }

\* no document resolved yet
NoDocs == [d \in {} |-> <<>>]

\* page maps given to build_js_object: targets with and without commas
JsFragments == { DEFAULT_PAGE, <<"f">>, <<"g">> }
JsTargets   == { <<"t">>, <<"t", ",">>, <<",">>, <<"#", "f">> }

-----------------------------------------------------------------------------
(* The pure functions applied to drawn inputs *)

BuildIdle ==
    /\ confpy = <<>>
    /\ config = <<>>
    /\ all_docs = {}
    /\ env = <<>>
    /\ pc = "pure"
    /\ call = [hook |-> "none"]
    /\ copied = <<>>
    /\ resolved = NoDocs

InitPure ==
    /\ BuildIdle
    /\ \/ \E ro \in DictsUpTo(Sources, Targets, MaxEntries),
             b \in BaseUrls, p \in PathPrefixes :
               pure = [op |-> "compute_redirects", done |-> FALSE,
                       redirects_option |-> ro,
                       html_baseurl |-> b, url_path_prefix |-> p]
       \/ \E pm \in DictsUpTo(JsFragments, JsTargets, MaxEntries) :
               pure = [op |-> "build_js_object", done |-> FALSE, pagemap |-> pm]

\* actual = compute_redirects(app, redirects)
ApplyComputeRedirects ==
    /\ pure.op = "compute_redirects" /\ ~pure.done
    /\ pure' = [pure EXCEPT !.done = TRUE] @@
               [result |-> compute_redirects(pure.redirects_option,
                                             pure.html_baseurl,
                                             pure.url_path_prefix)]
    /\ UNCHANGED <<confpy, config, all_docs, env, pc, call, copied, resolved>>

\* actual = build_js_object(pagemap)
ApplyBuildJsObject ==
    /\ pure.op = "build_js_object" /\ ~pure.done
    /\ pure' = [pure EXCEPT !.done = TRUE] @@
               [result |-> build_js_object(pure.pagemap)]
    /\ UNCHANGED <<confpy, config, all_docs, env, pc, call, copied, resolved>>

NextPure == ApplyComputeRedirects \/ ApplyBuildJsObject

SpecPure == InitPure /\ [][NextPure]_vars

-----------------------------------------------------------------------------
(* Claims about compute_redirects and build_js_object (SpecPure) *)

ComputeDone == pure.op = "compute_redirects" /\ pure.done
JsDone      == pure.op = "build_js_object" /\ pure.done

\* number of '#' in a source key
HashCount(s) == Cardinality({i \in 1..Len(s) : s[i] = HASH})

FirstHash(s) == CHOOSE i \in 1..Len(s) : s[i] = HASH /\ \A j \in 1..(i - 1) : s[j] # HASH

\* the part of a source before its '#', a trailing ".html" removed
PageOf(s) ==
    RemoveSuffix(IF HashCount(s) = 0 THEN s ELSE SubSeq(s, 1, FirstHash(s) - 1),
                 DOT_HTML)

\* the part of a source with one '#' after the '#', a trailing ".html" removed
FragmentOf(s) == RemoveSuffix(SubSeq(s, FirstHash(s) + 1, Len(s)), DOT_HTML)

\* the target as compute_redirects stores it: the html_baseurl prefix removed,
\* then url_path_prefix put before a target that starts with '/'
BaseOf(p)   == RemoveSuffix(p.html_baseurl, <<SLASH>>)
PrefixOf(p) == RemoveSuffix(p.url_path_prefix, <<SLASH>>)
Unbased(p, target) == RemovePrefix(target, BaseOf(p))
Stored(p, target) ==
    IF PrefixOf(p) # <<>> /\ Len(Unbased(p, target)) > 0
                          /\ Unbased(p, target)[1] = SLASH
    THEN PrefixOf(p) \o Unbased(p, target)
    ELSE Unbased(p, target)

\* the words of C1 about one source key and its target, for the inputs p of
\* one application: the key is the fragment, or '-' when the source has no
\* fragment; the target is non-empty, read as the target compute_redirects
\* stores
C1Key(s)      == IF HashCount(s) = 0 \/ FragmentOf(s) = <<>>
                 THEN DEFAULT_PAGE ELSE FragmentOf(s)
C1Valid(p, e) == /\ HashCount(e.k) <= 1
                 /\ PageOf(e.k) # <<>>
                 /\ Unbased(p, e.v) # <<>>
C1Same(e1, e2) == PageOf(e1.k) = PageOf(e2.k) /\ C1Key(e1.k) = C1Key(e2.k)

\* the entry of source e is in the result res
C1Holds(p, res, e) ==
    /\ DictHas(res, PageOf(e.k))
    /\ DictHas(DictGet(res, PageOf(e.k)), C1Key(e.k))
    /\ DictGet(DictGet(res, PageOf(e.k)), C1Key(e.k)) = Stored(p, e.v)

\* the statement of C1 as written: every valid source has its entry
C1_Original ==
    ComputeDone =>
        LET ro == pure.redirects_option
            res == pure.result
        IN /\ \A i \in 1..Len(ro) :
                  C1Valid(pure, ro[i]) => C1Holds(pure, res, ro[i])
           /\ \A x \in 1..Len(res) : \A y \in 1..Len(res[x].v) :
                  \E i \in 1..Len(ro) :
                      /\ C1Valid(pure, ro[i])
                      /\ PageOf(ro[i].k) = res[x].k
                      /\ C1Key(ro[i].k) = res[x].v[y].k
                      /\ Stored(pure, ro[i].v) = res[x].v[y].v

\* C1 (amended): a source with zero or one '#', a non-empty page name and a
\* non-empty target gives result[page][key] = target, where key is the
\* fragment, or '-' when the source has no fragment, and target is the target
\* as compute_redirects stores it; of several such sources with the same page
\* and key, only the last one in the option's order has its entry; and the
\* result holds no entry that does not come from such a source.
C1_ComputeMapsValidSources ==
    ComputeDone =>
        LET ro == pure.redirects_option
            res == pure.result
            Last(i) == \A j \in (i + 1)..Len(ro) :
                           ~(C1Valid(pure, ro[j]) /\ C1Same(ro[i], ro[j]))
        IN /\ \A i \in 1..Len(ro) :
                  (C1Valid(pure, ro[i]) /\ Last(i)) => C1Holds(pure, res, ro[i])
           /\ \A x \in 1..Len(res) : \A y \in 1..Len(res[x].v) :
                  \E i \in 1..Len(ro) :
                      /\ C1Valid(pure, ro[i]) /\ Last(i)
                      /\ PageOf(ro[i].k) = res[x].k
                      /\ C1Key(ro[i].k) = res[x].v[y].k
                      /\ Stored(pure, ro[i].v) = res[x].v[y].v

\* two sources that differ only by ".html" were given different targets, one of
\* them rewritten, and the result holds the page
C1_Witness ==
    /\ ComputeDone
    /\ Len(pure.redirects_option) = 2
    /\ pure.redirects_option[1].k = <<"a">>
    /\ pure.redirects_option[2].k = <<"a">> \o DOT_HTML
    /\ pure.redirects_option[1].v = <<"t">>
    /\ pure.redirects_option[2].v = <<"h", "/", "t">>
    /\ pure.html_baseurl = <<"h", "/">>
    /\ pure.url_path_prefix = <<"/", "p", "/">>
    /\ pure.result = <<[k |-> <<"a">>,
                        v |-> <<[k |-> DEFAULT_PAGE, v |-> <<"/", "p", "/", "t">>]>>]>>

\* the words of C2: a source with more than one '#', a source whose page name
\* is empty, an entry whose target is empty
C2Invalid(e) == HashCount(e.k) > 1 \/ PageOf(e.k) = <<>> \/ e.v = <<>>

\* the result as a mapping page -> fragment -> target (dict equality)
ResultAsMap(res) == [page \in DictKeySet(res) |-> DictAsMap(DictGet(res, page))]

\* C2: the entries C2 calls invalid contribute nothing and do not stop the
\* processing (the result is, as a mapping, the result of the other entries
\* alone), and the result never holds an empty page name, a page with an empty
\* fragment map, or an empty target.
C2_InvalidEntriesRejected ==
    ComputeDone =>
        LET ro == pure.redirects_option
            res == pure.result
            rest == SelectSeq(ro, LAMBDA e : ~C2Invalid(e))
        IN /\ ResultAsMap(res) =
                  ResultAsMap(compute_redirects(rest, pure.html_baseurl,
                                                pure.url_path_prefix))
           /\ \A x \in 1..Len(res) :
                  /\ res[x].k # <<>>
                  /\ Len(res[x].v) > 0
                  /\ \A y \in 1..Len(res[x].v) : res[x].v[y].v # <<>>

\* an entry with an empty target came first, the page it named is not in the
\* result, and the valid entry that followed it is
C2_Witness ==
    /\ ComputeDone
    /\ Len(pure.redirects_option) = 2
    /\ pure.redirects_option[1] = [k |-> <<"b", "#", "f">>, v |-> <<>>]
    /\ pure.redirects_option[2] = [k |-> <<"a", "#", "f">>, v |-> <<"t">>]
    /\ pure.result = <<[k |-> <<"a">>, v |-> <<[k |-> <<"f">>, v |-> <<"t">>]>>]>>

\* the pairs of a page map joined by single commas, from C7's words
RECURSIVE C7Joined(_, _)
C7Joined(pagemap, i) ==
    IF i > Len(pagemap) THEN <<>>
    ELSE (IF i > 1 THEN <<COMMA>> ELSE <<>>) \o
         <<QUOTE>> \o pagemap[i].k \o <<QUOTE, COLON, QUOTE>> \o
         pagemap[i].v \o <<QUOTE>> \o C7Joined(pagemap, i + 1)

\* C7: build_js_object(pagemap) is the head 'const fragment_redirects =
\* Object.freeze({', one "fragment":"target" pair per entry in the map's order,
\* separated by single commas with none after the last, and '});'.
C7_BuildJsObjectText ==
    JsDone =>
        pure.result = JS_HEAD \o C7Joined(pure.pagemap, 1) \o JS_TAIL

\* a two-entry map whose last target ends with a comma was written
C7_Witness ==
    /\ JsDone
    /\ Len(pure.pagemap) = 2
    /\ pure.pagemap[1].k = DEFAULT_PAGE
    /\ pure.pagemap[2].v = <<"t", ",">>
    /\ EndsWith(pure.result, <<"t", ",", QUOTE>> \o JS_TAIL)

\* C11: no page name of the map compute_redirects returns ends with ".html",
\* whatever the source keys of the redirects option are.
C11_NoPageEndsWithHtml ==
    ComputeDone =>
        \A x \in 1..Len(pure.result) : ~EndsWith(pure.result[x].k, DOT_HTML)

\* the two steps of C12, from its words, for the inputs p of one application:
\* the html_baseurl prefix (without a trailing '/') is removed from a target
\* that starts with it; url_path_prefix (without a trailing '/'), when it is
\* non-empty, is put before a target that starts with '/'
C12Step1(p, target) ==
    LET base == IF EndsWith(p.html_baseurl, <<SLASH>>)
                THEN SubSeq(p.html_baseurl, 1, Len(p.html_baseurl) - 1)
                ELSE p.html_baseurl
    IN IF StartsWith(target, base)
       THEN SubSeq(target, Len(base) + 1, Len(target))
       ELSE target
C12Step2(p, target) ==
    LET prefix == IF EndsWith(p.url_path_prefix, <<SLASH>>)
                  THEN SubSeq(p.url_path_prefix, 1, Len(p.url_path_prefix) - 1)
                  ELSE p.url_path_prefix
    IN IF prefix # <<>> /\ Len(target) > 0 /\ target[1] = SLASH
       THEN prefix \o target
       ELSE target

\* for each source key of the inputs: its number of '#', its page name and
\* its fragment key, worked out once
C12Facts ==
    [s \in Sources |-> [hashes |-> HashCount(s), page |-> PageOf(s), key |-> C1Key(s)]]

\* C12: the target of an accepted source is rewritten in two steps, the
\* html_baseurl prefix removed first and url_path_prefix prepended second, and
\* is judged empty between the two: the last source of a page and key whose
\* target is non-empty after the first step has the second step's result
\* stored, and a page and key all of whose sources have a target that is empty
\* after the first step has no entry.
C12_TargetRewrittenInTwoSteps ==
    ComputeDone =>
        LET ro == pure.redirects_option
            res == pure.result
            n == Len(ro)
            page == [i \in 1..n |-> C12Facts[ro[i].k].page]
            key == [i \in 1..n |-> C12Facts[ro[i].k].key]
            step1 == [i \in 1..n |-> C12Step1(pure, ro[i].v)]
            \* a source key compute_redirects accepts: zero or one '#', a page name
            formed == [i \in 1..n |-> C12Facts[ro[i].k].hashes <= 1 /\ page[i] # <<>>]
            kept == [i \in 1..n |-> formed[i] /\ step1[i] # <<>>]
            same == [i \in 1..n |-> {j \in 1..n : page[j] = page[i] /\ key[j] = key[i]}]
            entry == [i \in 1..n |->
                         /\ DictHas(res, page[i])
                         /\ DictHas(DictGet(res, page[i]), key[i])]
        IN \A i \in 1..n :
               /\ (kept[i] /\ \A j \in same[i] : j > i => ~kept[j])
                      => /\ entry[i]
                         /\ DictGet(DictGet(res, page[i]), key[i])
                                = C12Step2(pure, step1[i])
               /\ (formed[i] /\ \A j \in same[i] : ~kept[j])
                      => ~entry[i]

\* a target under html_baseurl was stored with url_path_prefix before it, and
\* a target that is html_baseurl itself was dropped
C12_Witness ==
    /\ ComputeDone
    /\ pure.html_baseurl = <<"h", "/">>
    /\ pure.url_path_prefix = <<"/", "p", "/">>
    /\ pure.redirects_option =
           <<[k |-> <<"a">>, v |-> <<"h", "/", "t">>],
             [k |-> <<"a", "#", "f">>, v |-> <<"h">>]>>
    /\ pure.result = <<[k |-> <<"a">>,
                        v |-> <<[k |-> DEFAULT_PAGE, v |-> <<"/", "p", "/", "t">>]>>]>>

-----------------------------------------------------------------------------
(* The build: app.config, app.env and the hooks the host calls *)

\* environment keys
ENV_REDIRECTS_ENABLED         == "redirects-enabled"
ENV_COMPUTED_REDIRECTS        == "computed-redirects"
ENV_INTRA_PAGE_FRAGMENT_PAGES == "intra-page-fragment-pages"
ENV_EXTENSIONLESS_PAGES       == "extensionless-pages"
ENV_DOCTREE_REDIRECTS         == "doctree-redirects"

\* hasattr(obj, name), getattr(obj, name), setattr(obj, name, val) on an object
\* modelled as a function from attribute names to values
HasAttr(obj, name) == name \in DOMAIN obj
GetAttr(obj, name) == obj[name]
SetAttr(obj, name, val) ==
    [a \in DOMAIN obj \cup {name} |-> IF a = name THEN val ELSE obj[a]]

NoAttrs == [a \in {} |-> FALSE]

\* the documents a modelled project can have
DocNames == { <<"a">> }

\* source keys and targets of the redirects option of a modelled build: pages
\* that are documents (a) and that are not (b), with and without fragments
BuildSources ==
    { <<"a">>, <<"a", "#", "f">>, <<"b">>, <<"b", "#", "f">>, <<>> }
BuildTargets == { <<"t">>, <<"h", "/", "t">> }

\* conf.py: html_baseurl always has a value (the host's option); the options
\* of the extension may be left out
ConfPys ==
    { c @@ r @@ w :
        c \in { [html_baseurl |-> <<>>],
                [html_baseurl |-> <<"h", "/">>, url_path_prefix |-> <<"/", "p", "/">>] },
        r \in { NoAttrs } \cup
              { [redirects |-> ro] :
                  ro \in DictsUpTo(BuildSources, BuildTargets, MaxBuildEntries) },
        w \in { NoAttrs, [redirect_write_extensionless_pages |-> TRUE] } }

Init ==
    /\ confpy \in ConfPys
    /\ config = [html_baseurl |-> confpy.html_baseurl]
    /\ all_docs \in { {}, DocNames }
    /\ env = NoAttrs
    /\ pc = "new"
    /\ call = [hook |-> "none"]
    /\ copied = <<>>
    /\ resolved = NoDocs
    /\ pure = [op |-> "none"]

\* app.add_config_value(name, default, "env"): the value of conf.py, or the
\* default
add_config_value(cfg, name, default) ==
    SetAttr(cfg, name, IF HasAttr(confpy, name) THEN confpy[name] ELSE default)

\* the events setup() connects a handler to
SetupConnects ==
    { "builder-inited", "env-updated", "html-page-context",
      "html-collect-pages", "build-finished" }

\* setup(app)
Setup ==
    /\ pc = "new"
    /\ config' =
         add_config_value(
           add_config_value(
             add_config_value(
               add_config_value(config, "redirects", OPTION_REDIRECTS_DEFAULT),
               "redirect_html_template_file", "None"),
             "url_path_prefix", URL_PATH_PREFIX_DEFAULT),
           "redirect_write_extensionless_pages", WRITE_EXTENSIONLESS_PAGES_DEFAULT)
    /\ pc' = "setup"
    /\ call' = [hook |-> "setup", connected |-> SetupConnects]
    /\ UNCHANGED <<confpy, all_docs, env, copied, resolved, pure>>

\* builder_inited that enables the extension whatever the option holds
builder_inited_always_enabled(e, cfg) ==
    SetAttr(SetAttr(e, ENV_REDIRECTS_ENABLED, TRUE), ENV_DOCTREE_REDIRECTS, EmptyDict)

\* builder_inited(app), as a function of app.env and app.config
builder_inited(e, cfg) ==
    LET enabled == SetAttr(e, ENV_REDIRECTS_ENABLED, TRUE) IN
    IF cfg.redirects = EmptyDict                 \* not app.config[...]
    THEN SetAttr(enabled, ENV_REDIRECTS_ENABLED, FALSE)
    ELSE IF Len(cfg.redirects) = 0               \* len(app.config[...]) == 0
    THEN SetAttr(enabled, ENV_REDIRECTS_ENABLED, FALSE)
    ELSE SetAttr(enabled, ENV_DOCTREE_REDIRECTS, EmptyDict)

BuilderInited ==
    /\ pc = "setup"
    /\ env' = builder_inited(env, config)
    /\ pc' = "inited"
    /\ call' = [hook |-> "builder_inited"]
    /\ UNCHANGED <<confpy, config, all_docs, copied, resolved, pure>>

\* the loop of env_updated without the test "page in env.all_docs"
RECURSIVE intra_page_fragments_all(_, _, _)
intra_page_fragments_all(computed, i, docs) ==
    IF i > Len(computed) THEN <<>>
    ELSE <<computed[i].k>> \o intra_page_fragments_all(computed, i + 1, docs)

\* the loop of env_updated over computed_redirects.keys(): the pages that are
\* documents, in the map's order
RECURSIVE intra_page_fragments(_, _, _)
intra_page_fragments(computed, i, docs) ==
    IF i > Len(computed) THEN <<>>
    ELSE (IF computed[i].k \in docs THEN <<computed[i].k>> ELSE <<>>) \o
         intra_page_fragments(computed, i + 1, docs)

\* env_updated(app, env), as a function of app.env, app.config and all_docs
\* (the doctree-redirects attribute it also reads is not used: the overlay of
\* the doctree's redirects is a "to do" of the code)
env_updated(e, cfg, docs) ==
    IF ~GetAttr(e, ENV_REDIRECTS_ENABLED) THEN e
    ELSE LET computed_redirects ==
                 compute_redirects(cfg.redirects, cfg.html_baseurl,
                                   cfg.url_path_prefix)
         IN SetAttr(SetAttr(e, ENV_COMPUTED_REDIRECTS, computed_redirects),
                    ENV_INTRA_PAGE_FRAGMENT_PAGES,
                    intra_page_fragments(computed_redirects, 1, docs))

EnvUpdated ==
    /\ pc = "inited"
    /\ env' = env_updated(env, config, all_docs)
    /\ pc' = "updated"
    /\ call' = [hook |-> "env_updated", ret |-> <<>>]
    /\ UNCHANGED <<confpy, config, all_docs, copied, resolved, pure>>

\* HTML context keys
CTX_HAS_FRAGMENT_REDIRECTS == "has_fragment_redirects"
CTX_FRAGMENT_REDIRECTS     == "fragment_redirects"

\* page names, template names and contexts the host passes to html_page_context
PageNames     == { <<"a">>, <<"b">> }
TemplateNames == { "page.html", "redirect.html" }
Contexts      == { NoAttrs, [title |-> <<"T">>] }

\* html_page_context that leaves has_fragment_redirects False for every page
html_page_context_flag_unset(e, pagename, context) ==
    IF ~GetAttr(e, ENV_REDIRECTS_ENABLED) THEN context
    ELSE LET cleared == SetAttr(context, CTX_HAS_FRAGMENT_REDIRECTS, FALSE)
             intra_page_fragments_list == GetAttr(e, ENV_INTRA_PAGE_FRAGMENT_PAGES)
         IN IF \E i \in 1..Len(intra_page_fragments_list) :
                   intra_page_fragments_list[i] = pagename
            THEN SetAttr(cleared, CTX_FRAGMENT_REDIRECTS,
                         build_js_object(
                           DictGet(GetAttr(e, ENV_COMPUTED_REDIRECTS), pagename)))
            ELSE cleared

\* the context html_page_context leaves behind
html_page_context(e, pagename, context) ==
    IF ~GetAttr(e, ENV_REDIRECTS_ENABLED) THEN context
    ELSE LET cleared == SetAttr(context, CTX_HAS_FRAGMENT_REDIRECTS, FALSE)
             intra_page_fragments_list == GetAttr(e, ENV_INTRA_PAGE_FRAGMENT_PAGES)
         IN IF \E i \in 1..Len(intra_page_fragments_list) :
                   intra_page_fragments_list[i] = pagename
            THEN SetAttr(
                   SetAttr(cleared, CTX_FRAGMENT_REDIRECTS,
                           build_js_object(
                             DictGet(GetAttr(e, ENV_COMPUTED_REDIRECTS), pagename))),
                   CTX_HAS_FRAGMENT_REDIRECTS, TRUE)
            ELSE cleared

HtmlPageContext ==
    /\ pc \in {"updated", "collected"}
    /\ \E pagename \in PageNames, templatename \in TemplateNames,
          context \in Contexts :
         call' = [hook |-> "html_page_context",
                  pagename |-> pagename, templatename |-> templatename,
                  context_in |-> context,
                  context |-> html_page_context(env, pagename, context),
                  ret |-> templatename]
    /\ UNCHANGED <<confpy, config, all_docs, env, pc, copied, resolved, pure>>

SIMPLE_TEMPLATE   == "simpleredirect.html"
FRAGMENT_TEMPLATE == "redirect.html"

\* the pass of html_collect_pages with the simple template chosen for every
\* map that holds the default page, whatever its size
html_collect_pages_page_simple_first(st, page, docs, write_extensionless_pages) ==
    LET pagemap == DictGet(st.computed_redirects, page)
        noted   == IF write_extensionless_pages
                   THEN Append(st.extensionless_pages, page)
                   ELSE st.extensionless_pages
    IN
    IF page \in docs THEN st
    ELSE IF DictHas(pagemap, DEFAULT_PAGE)
    THEN [st EXCEPT
            !.redirect_pages =
                Append(@, <<page, [to_uri |-> DictGet(pagemap, DEFAULT_PAGE)],
                            "simpleredirect.html">>),
            !.extensionless_pages = noted]
    ELSE
    LET completed == IF Len(pagemap) = 1
                     THEN DictSet(pagemap, DEFAULT_PAGE, pagemap[1].v)
                     ELSE pagemap
    IN [st EXCEPT
          !.computed_redirects = DictSet(@, page, completed),
          !.redirect_pages =
              Append(@, <<page,
                          [fragment_redirects |-> build_js_object(completed)],
                          "redirect.html">>),
          !.extensionless_pages = noted]

\* the pass of html_collect_pages with the page's map replaced by the default
\* page redirect instead of completed with it
html_collect_pages_page_replaces(st, page, docs, write_extensionless_pages) ==
    LET pagemap == DictGet(st.computed_redirects, page)
        noted   == IF write_extensionless_pages
                   THEN Append(st.extensionless_pages, page)
                   ELSE st.extensionless_pages
    IN
    IF page \in docs THEN st
    ELSE IF Len(pagemap) = 1 /\ DictHas(pagemap, DEFAULT_PAGE)
    THEN [st EXCEPT
            !.redirect_pages =
                Append(@, <<page, [to_uri |-> DictGet(pagemap, DEFAULT_PAGE)],
                            "simpleredirect.html">>),
            !.extensionless_pages = noted]
    ELSE
    LET completed == IF Len(pagemap) = 1
                     THEN <<[k |-> DEFAULT_PAGE, v |-> pagemap[1].v]>>
                     ELSE pagemap
    IN [st EXCEPT
          !.computed_redirects = DictSet(@, page, completed),
          !.redirect_pages =
              Append(@, <<page,
                          [fragment_redirects |-> build_js_object(completed)],
                          "redirect.html">>),
          !.extensionless_pages = noted]

\* html_collect_pages_page with no default-page entry added to a page that has
\* a single fragment redirect
html_collect_pages_page_no_default(st, page, docs, write_extensionless_pages) ==
    LET pagemap == DictGet(st.computed_redirects, page)
        noted   == IF write_extensionless_pages
                   THEN Append(st.extensionless_pages, page)
                   ELSE st.extensionless_pages
    IN
    IF page \in docs THEN st
    ELSE IF Len(pagemap) = 1 /\ DictHas(pagemap, DEFAULT_PAGE)
    THEN [st EXCEPT
            !.redirect_pages =
                Append(@, <<page, [to_uri |-> DictGet(pagemap, DEFAULT_PAGE)],
                            "simpleredirect.html">>),
            !.extensionless_pages = noted]
    ELSE [st EXCEPT
            !.redirect_pages =
                Append(@, <<page,
                            [fragment_redirects |-> build_js_object(pagemap)],
                            "redirect.html">>),
            !.extensionless_pages = noted]

\* one pass of the loop of html_collect_pages over computed_redirects.keys();
\* st holds computed_redirects, redirect_pages and extensionless_pages
html_collect_pages_page(st, page, docs, write_extensionless_pages) ==
    LET pagemap == DictGet(st.computed_redirects, page)
        noted   == IF write_extensionless_pages
                   THEN Append(st.extensionless_pages, page)
                   ELSE st.extensionless_pages
    IN
    IF page \in docs THEN st
    ELSE IF Len(pagemap) = 1 /\ DictHas(pagemap, DEFAULT_PAGE)
    THEN [st EXCEPT
            !.redirect_pages =
                Append(@, <<page, [to_uri |-> DictGet(pagemap, DEFAULT_PAGE)],
                            SIMPLE_TEMPLATE>>),
            !.extensionless_pages = noted]
    ELSE
    LET default_page_url == IF Len(pagemap) = 1 THEN pagemap[1].v ELSE <<>>
        completed == IF Len(pagemap) = 1 /\ default_page_url # <<>>
                     THEN DictSet(pagemap, DEFAULT_PAGE, default_page_url)
                     ELSE pagemap
    IN [st EXCEPT
          !.computed_redirects = DictSet(@, page, completed),
          !.redirect_pages =
              Append(@, <<page,
                          [fragment_redirects |-> build_js_object(completed)],
                          FRAGMENT_TEMPLATE>>),
          !.extensionless_pages = noted]

RECURSIVE html_collect_pages_loop(_, _, _, _, _)
html_collect_pages_loop(st, keys, i, docs, write_extensionless_pages) ==
    IF i > Len(keys) THEN st
    ELSE html_collect_pages_loop(
             html_collect_pages_page(st, keys[i], docs, write_extensionless_pages),
             keys, i + 1, docs, write_extensionless_pages)

\* html_collect_pages(app) for an enabled build: what the loop leaves behind
html_collect_pages(e, cfg, docs) ==
    html_collect_pages_loop(
        [computed_redirects  |-> GetAttr(e, ENV_COMPUTED_REDIRECTS),
         redirect_pages      |-> <<>>,
         extensionless_pages |-> <<>>],
        DictKeys(GetAttr(e, ENV_COMPUTED_REDIRECTS)), 1, docs,
        cfg.redirect_write_extensionless_pages)

HtmlCollectPages ==
    /\ pc = "updated"
    /\ pc' = "collected"
    /\ IF ~GetAttr(env, ENV_REDIRECTS_ENABLED)
       THEN /\ call' = [hook |-> "html_collect_pages", ret |-> <<>>]
            /\ env' = env
       ELSE LET st == html_collect_pages(env, config, all_docs)
                stored == SetAttr(env, ENV_COMPUTED_REDIRECTS, st.computed_redirects)
            IN /\ call' = [hook |-> "html_collect_pages",
                           computed_before |-> GetAttr(env, ENV_COMPUTED_REDIRECTS),
                           ret |-> st.redirect_pages]
               /\ env' = IF config.redirect_write_extensionless_pages
                         THEN SetAttr(stored, ENV_EXTENSIONLESS_PAGES,
                                      st.extensionless_pages)
                         ELSE stored
    /\ UNCHANGED <<confpy, config, all_docs, copied, resolved, pure>>

-----------------------------------------------------------------------------
(* walker.py: DoctreeWalker, and doctree_resolved *)

\* docutils nodes: a section with its ids and children, the SEORedirectNode
\* the directive leaves in the tree, and any other node
Section(ids, children) ==
    [kind |-> "section", ids |-> ids, children |-> children, redirect_list |-> <<>>]
SEORedirectNode(redirects) ==
    [kind |-> "SEORedirectNode", ids |-> <<>>, children |-> <<>>,
     redirect_list |-> SelectSeq(redirects, LAMBDA r : r # <<>>)]
Paragraph ==
    [kind |-> "paragraph", ids |-> <<>>, children |-> <<>>, redirect_list |-> <<>>]
Document(children) ==
    [kind |-> "document", ids |-> <<>>, children |-> children, redirect_list |-> <<>>]

\* DoctreeWalker.find_root_section: the first id of the first top-level section
\* that has one
RECURSIVE find_root_section(_, _)
find_root_section(children, i) ==
    IF i > Len(children) THEN <<>>
    ELSE IF children[i].kind = "section" /\ Len(children[i].ids) > 0
    THEN children[i].ids[1]
    ELSE find_root_section(children, i + 1)

\* the children of a node without the child at position i (child.replace_self([]))
WithoutChild(children, i) ==
    SubSeq(children, 1, i - 1) \o SubSeq(children, i + 1, Len(children))

\* DoctreeWalker.visit_section: w holds the section as the visit leaves it and
\* _section_redirects
visit_section(node, section_redirects) ==
    LET section_id == IF Len(node.ids) > 0 THEN node.ids[1] ELSE <<>>
        found == {i \in 1..Len(node.children) :
                      node.children[i].kind = "SEORedirectNode"}
        first == CHOOSE i \in found : \A j \in found : i <= j
        redirects == IF found = {} THEN <<>>
                     ELSE node.children[first].redirect_list
        pruned == IF found = {} THEN node
                  ELSE [node EXCEPT !.children = WithoutChild(@, first)]
    IN [node |-> pruned,
        section_redirects |->
            IF Len(redirects) > 0 /\ section_id # <<>>
            THEN DictSet(section_redirects, section_id, redirects)
            ELSE section_redirects]

\* node.walk(visitor): the node is visited, then its children are walked in
\* order; unknown_visit raises SkipNode for a SEORedirectNode
RECURSIVE walk(_, _)
RECURSIVE walk_children(_, _, _)
walk(node, section_redirects) ==
    IF node.kind = "SEORedirectNode"
    THEN [node |-> node, section_redirects |-> section_redirects]
    ELSE LET visited == IF node.kind = "section"
                        THEN visit_section(node, section_redirects)
                        ELSE [node |-> node, section_redirects |-> section_redirects]
             below == walk_children(visited.node.children, 1,
                                    visited.section_redirects)
         IN [node |-> [visited.node EXCEPT !.children = below.children],
             section_redirects |-> below.section_redirects]

walk_children(children, i, section_redirects) ==
    IF i > Len(children)
    THEN [children |-> children, section_redirects |-> section_redirects]
    ELSE LET w == walk(children[i], section_redirects)
         IN walk_children([children EXCEPT ![i] = w.node], i + 1,
                          w.section_redirects)

\* the attribute doctree_resolved keeps the harvested redirects in
SEO_REDIRECT_REDIRECTS == "seo_redirect_redirects"

\* redirect_to for a section of document docname
redirect_target(docname, section_id, root_section) ==
    IF section_id = root_section THEN docname
    ELSE docname \o <<HASH>> \o section_id

\* record_redirects with the list of an old URL replaced by the new target
RECURSIVE record_redirects_overwrite(_, _, _, _)
record_redirects_overwrite(stored, redirects, i, redirect_to) ==
    IF i > Len(redirects) THEN stored
    ELSE record_redirects_overwrite(
             DictSet(stored, redirects[i], <<redirect_to>>),
             redirects, i + 1, redirect_to)

\* the inner loop of doctree_resolved, over the old URLs of one section
RECURSIVE record_redirects(_, _, _, _)
record_redirects(stored, redirects, i, redirect_to) ==
    IF i > Len(redirects) THEN stored
    ELSE record_redirects(
             IF DictHas(stored, redirects[i])
             THEN DictSet(stored, redirects[i],
                          Append(DictGet(stored, redirects[i]), redirect_to))
             ELSE DictSet(stored, redirects[i], <<redirect_to>>),
             redirects, i + 1, redirect_to)

\* the outer loop of doctree_resolved, over section_redirects
RECURSIVE record_sections(_, _, _, _, _)
record_sections(stored, section_redirects, i, docname, root_section) ==
    IF i > Len(section_redirects) THEN stored
    ELSE record_sections(
             record_redirects(stored, section_redirects[i].v, 1,
                              redirect_target(docname, section_redirects[i].k,
                                              root_section)),
             section_redirects, i + 1, docname, root_section)

\* doctree_resolved(app, doctree, docname): app.env as the call leaves it
doctree_resolved(e, doctree, docname) ==
    LET walked == walk(doctree, EmptyDict)
        root_section == find_root_section(doctree.children, 1)
        had == IF HasAttr(e, SEO_REDIRECT_REDIRECTS) THEN e
               ELSE SetAttr(e, SEO_REDIRECT_REDIRECTS, EmptyDict)
    IN IF Len(walked.section_redirects) = 0 THEN e
       ELSE SetAttr(had, SEO_REDIRECT_REDIRECTS,
                    record_sections(GetAttr(had, SEO_REDIRECT_REDIRECTS),
                                    walked.section_redirects, 1, docname,
                                    root_section))

\* the doctrees a modelled document can have
Doctrees ==
    { \* a root section s redirected from o, its subsection u from o and q
      Document(<<Section(<<<<"s">>>>,
                   <<SEORedirectNode(<<<<"o">>>>), Paragraph,
                     Section(<<<<"u">>>>,
                       <<SEORedirectNode(<<<<"o">>, <<"q">>>>)>>)>>)>>),
      \* no redirect
      Document(<<Section(<<<<"s">>>>, <<Paragraph>>)>>),
      \* a section without id, and a section with two directives
      Document(<<Section(<<>>, <<SEORedirectNode(<<<<"o">>>>)>>),
                 Section(<<<<"s">>>>,
                   <<SEORedirectNode(<<<<"o">>>>),
                     SEORedirectNode(<<<<"q">>>>)>>)>>),
      \* two top-level sections s and r, each redirected from o
      Document(<<Section(<<<<"s">>>>, <<SEORedirectNode(<<<<"o">>>>)>>),
                 Section(<<<<"r">>>>, <<SEORedirectNode(<<<<"o">>>>)>>)>>) }

\* the number of targets kept in a map old URL -> targets
RECURSIVE RecordedIn(_, _)
RecordedIn(stored, i) ==
    IF i > Len(stored) THEN 0
    ELSE Len(stored[i].v) + RecordedIn(stored, i + 1)

\* the number of targets env keeps, in either of its maps
Recorded(e) ==
    (IF HasAttr(e, SEO_REDIRECT_REDIRECTS)
     THEN RecordedIn(GetAttr(e, SEO_REDIRECT_REDIRECTS), 1) ELSE 0) +
    (IF HasAttr(e, ENV_DOCTREE_REDIRECTS)
     THEN RecordedIn(GetAttr(e, ENV_DOCTREE_REDIRECTS), 1) ELSE 0)

\* doctree_resolved(app, doctree, docname), called on the app directly:
\* setup connects it to no event
DoctreeResolved ==
    /\ pc = "handlers"
    /\ Recorded(env) <= MaxRecorded
    /\ \E docname \in all_docs, doctree \in Doctrees :
         /\ env' = doctree_resolved(env, doctree, docname)
         /\ call' = [hook |-> "doctree_resolved", docname |-> docname,
                     doctree_in |-> doctree,
                     doctree |-> walk(doctree, EmptyDict).node,
                     section_redirects |-> walk(doctree, EmptyDict).section_redirects,
                     root_section |-> find_root_section(doctree.children, 1)]
    /\ UNCHANGED <<confpy, config, all_docs, pc, copied, resolved, pure>>

-----------------------------------------------------------------------------
(* sphinx.py: env_purge_doc and env_merge_info *)

\* env_purge_doc(app, env, docname): env as the call leaves it
env_purge_doc(e, docname) ==
    IF HasAttr(e, ENV_DOCTREE_REDIRECTS)
    THEN IF DictHas(GetAttr(e, ENV_DOCTREE_REDIRECTS), docname)
         THEN SetAttr(e, ENV_DOCTREE_REDIRECTS,
                      DictPop(GetAttr(e, ENV_DOCTREE_REDIRECTS), docname))
         ELSE e
    ELSE e

\* env_purge_doc called on the app directly: setup connects it to no event
EnvPurgeDoc ==
    /\ pc = "handlers"
    /\ \E docname \in all_docs :
         /\ env' = env_purge_doc(env, docname)
         /\ call' = [hook |-> "env_purge_doc", docname |-> docname]
    /\ UNCHANGED <<confpy, config, all_docs, pc, copied, resolved, pure>>

\* the loop "for linkKey in other_redirects": lists of keys both maps have are
\* extended, the other keys are added
RECURSIVE merge_redirects(_, _, _)
merge_redirects(mine, theirs, i) ==
    IF i > Len(theirs) THEN mine
    ELSE merge_redirects(
             IF DictHas(mine, theirs[i].k)
             THEN DictSet(mine, theirs[i].k,
                          DictGet(mine, theirs[i].k) \o theirs[i].v)
             ELSE DictSet(mine, theirs[i].k, theirs[i].v),
             theirs, i + 1)

\* env_merge_info(app, env, docnames, other): env as the call leaves it, and
\* the exception it raises; getattr(env, 'doctree-redirects') has no default
env_merge_info(e, other) ==
    IF HasAttr(other, ENV_DOCTREE_REDIRECTS)
    THEN IF ~HasAttr(e, ENV_DOCTREE_REDIRECTS)
         THEN [env |-> e, raised |-> "AttributeError"]
         ELSE [env |-> SetAttr(e, ENV_DOCTREE_REDIRECTS,
                               merge_redirects(GetAttr(e, ENV_DOCTREE_REDIRECTS),
                                               GetAttr(other, ENV_DOCTREE_REDIRECTS),
                                               1)),
               raised |-> "None"]
    ELSE [env |-> e, raised |-> "None"]

\* the environments of reader workers given to env_merge_info
OtherEnvs ==
    { NoAttrs,
      SetAttr(NoAttrs, ENV_DOCTREE_REDIRECTS, EmptyDict),
      SetAttr(NoAttrs, ENV_DOCTREE_REDIRECTS,
              <<[k |-> <<"a">>, v |-> << <<"o">> >>]>>),
      SetAttr(NoAttrs, ENV_DOCTREE_REDIRECTS,
              <<[k |-> <<"a">>, v |-> << <<"q">> >>],
                [k |-> <<"b">>, v |-> << <<"o">> >>]>>) }

\* env_merge_info called on the app directly: setup connects it to no event
EnvMergeInfo ==
    /\ pc = "handlers"
    /\ Recorded(env) <= MaxRecorded
    /\ \E other \in OtherEnvs :
         /\ env' = env_merge_info(env, other).env
         /\ call' = [hook |-> "env_merge_info", other |-> other,
                     raised |-> env_merge_info(env, other).raised]
    /\ UNCHANGED <<confpy, config, all_docs, pc, copied, resolved, pure>>

-----------------------------------------------------------------------------
(* The legacy package sphinx-seo-redirect: its walker and its handlers *)

\* the events setup() of the legacy package connects a handler to
LegacySetupConnects ==
    { "env-purge-doc", "env-merge-info", "html-collect-pages",
      "doctree-resolved" }

\* DoctreeWalker.find_root_section of the legacy walker: its break leaves the
\* loop over the attributes only, so the last top-level section that has ids
\* decides (attlist() lists ids only when it is not empty)
RECURSIVE legacy_find_root_section(_, _, _)
legacy_find_root_section(children, i, root_section) ==
    IF i > Len(children) THEN root_section
    ELSE legacy_find_root_section(
             children, i + 1,
             IF children[i].kind = "section" /\ Len(children[i].ids) > 0
             THEN children[i].ids[1]
             ELSE root_section)

\* DoctreeWalker.visit_section of the legacy walker
legacy_visit_section(node, section_redirects) ==
    LET section_id == IF Len(node.ids) > 0 THEN node.ids[1] ELSE <<>>
        found == {i \in 1..Len(node.children) :
                      node.children[i].kind = "SEORedirectNode"}
        first == CHOOSE i \in found : \A j \in found : i <= j
        redirects == IF found = {} THEN <<>>
                     ELSE node.children[first].redirect_list
        pruned == IF found = {} THEN node
                  ELSE [node EXCEPT !.children = WithoutChild(@, first)]
    IN [node |-> pruned,
        section_redirects |->
            IF Len(redirects) > 0 /\ section_id # <<>>
            THEN DictSet(section_redirects, section_id, redirects)
            ELSE section_redirects]

\* doctree.walk(doctree_walker) with the legacy walker
RECURSIVE legacy_walk(_, _)
RECURSIVE legacy_walk_children(_, _, _)
legacy_walk(node, section_redirects) ==
    IF node.kind = "SEORedirectNode"
    THEN [node |-> node, section_redirects |-> section_redirects]
    ELSE LET visited == IF node.kind = "section"
                        THEN legacy_visit_section(node, section_redirects)
                        ELSE [node |-> node, section_redirects |-> section_redirects]
             below == legacy_walk_children(visited.node.children, 1,
                                           visited.section_redirects)
         IN [node |-> [visited.node EXCEPT !.children = below.children],
             section_redirects |-> below.section_redirects]

legacy_walk_children(children, i, section_redirects) ==
    IF i > Len(children)
    THEN [children |-> children, section_redirects |-> section_redirects]
    ELSE LET w == legacy_walk(children[i], section_redirects)
         IN legacy_walk_children([children EXCEPT ![i] = w.node], i + 1,
                                 w.section_redirects)

\* doctree_resolved(app, doctree, docname) of the legacy package: its loops
\* are those of sphinx.py
legacy_doctree_resolved(e, doctree, docname) ==
    LET walked == legacy_walk(doctree, EmptyDict)
        root_section == legacy_find_root_section(doctree.children, 1, <<>>)
        had == IF HasAttr(e, SEO_REDIRECT_REDIRECTS) THEN e
               ELSE SetAttr(e, SEO_REDIRECT_REDIRECTS, EmptyDict)
    IN IF Len(walked.section_redirects) = 0 THEN e
       ELSE SetAttr(had, SEO_REDIRECT_REDIRECTS,
                    record_sections(GetAttr(had, SEO_REDIRECT_REDIRECTS),
                                    walked.section_redirects, 1, docname,
                                    root_section))

\* env_purge_doc(app, env, docname) of the legacy package
legacy_env_purge_doc(e, docname) ==
    IF HasAttr(e, SEO_REDIRECT_REDIRECTS)
    THEN IF DictHas(GetAttr(e, SEO_REDIRECT_REDIRECTS), docname)
         THEN SetAttr(e, SEO_REDIRECT_REDIRECTS,
                      DictPop(GetAttr(e, SEO_REDIRECT_REDIRECTS), docname))
         ELSE e
    ELSE e

\* env_merge_info(app, env, docnames, other) of the legacy package: the
\* attribute is created when env has none, then other's lists are merged
legacy_env_merge_info(e, other) ==
    LET had == IF HasAttr(e, SEO_REDIRECT_REDIRECTS) THEN e
               ELSE SetAttr(e, SEO_REDIRECT_REDIRECTS, EmptyDict)
    IN IF HasAttr(other, SEO_REDIRECT_REDIRECTS)
       THEN SetAttr(had, SEO_REDIRECT_REDIRECTS,
                    merge_redirects(GetAttr(had, SEO_REDIRECT_REDIRECTS),
                                    GetAttr(other, SEO_REDIRECT_REDIRECTS), 1))
       ELSE had

\* to_uri of one target in html_collect_pages of the legacy package
legacy_to_uri(html_baseurl, redir_to) ==
    LET base == IF EndsWith(html_baseurl, <<SLASH>>) THEN html_baseurl
                ELSE html_baseurl \o <<SLASH>>
        toks == Split(redir_to, HASH)
    IN IF Len(toks) >= 2
       THEN base \o toks[1] \o DOT_HTML \o <<HASH>> \o toks[2]
       ELSE base \o redir_to \o DOT_HTML

\* the tuples of one old URL, one per target
legacy_redirect_pages(html_baseurl, redir_from, targets) ==
    [i \in 1..Len(targets) |->
        <<redir_from,
          [title |-> "redirecting...",
           to_uri |-> legacy_to_uri(html_baseurl, targets[i])],
          "redirective.html">>]

RECURSIVE legacy_collect(_, _, _)
legacy_collect(html_baseurl, stored, i) ==
    IF i > Len(stored) THEN <<>>
    ELSE legacy_redirect_pages(html_baseurl, stored[i].k, stored[i].v) \o
         legacy_collect(html_baseurl, stored, i + 1)

\* html_collect_pages(app) of the legacy package: the list it returns
legacy_html_collect_pages(e, cfg) ==
    IF HasAttr(e, SEO_REDIRECT_REDIRECTS)
    THEN legacy_collect(cfg.html_baseurl, GetAttr(e, SEO_REDIRECT_REDIRECTS), 1)
    ELSE <<>>

\* setup(app) of the legacy package, at the start of a build; the environment
\* of the build before is unpickled, with the attributes it had
LegacySetup ==
    /\ pc \in {"new", "collected"}
    /\ Recorded(env) <= MaxRecorded
    /\ pc' = "reading"
    /\ call' = [hook |-> "setup", connected |-> LegacySetupConnects]
    /\ UNCHANGED <<confpy, config, all_docs, env, copied, resolved, pure>>

\* env-purge-doc: the host purges a document before it reads it, and resolves
\* it again afterwards
LegacyEnvPurgeDoc ==
    /\ pc = "reading"
    /\ \E docname \in all_docs :
         /\ env' = legacy_env_purge_doc(env, docname)
         /\ resolved' = [d \in DOMAIN resolved \ {docname} |-> resolved[d]]
         /\ call' = [hook |-> "env_purge_doc", docname |-> docname]
    /\ UNCHANGED <<confpy, config, all_docs, pc, copied, pure>>

\* the environments of reader workers: without the attribute, a copy of the
\* environment, or with lists of a document b that is not one of all_docs
LegacyOtherEnvs(e) ==
    { NoAttrs, e,
      SetAttr(NoAttrs, SEO_REDIRECT_REDIRECTS,
              <<[k |-> <<"o">>, v |-> << <<"b", "#", "u">> >>],
                [k |-> <<"q">>, v |-> << <<"b">> >>]>>) }

\* env-merge-info
LegacyEnvMergeInfo ==
    /\ pc = "reading"
    /\ Recorded(env) <= MaxRecorded
    /\ \E other \in LegacyOtherEnvs(env) :
         /\ env' = legacy_env_merge_info(env, other)
         /\ call' = [hook |-> "env_merge_info", other |-> other]
    /\ UNCHANGED <<confpy, config, all_docs, pc, copied, resolved, pure>>

\* doctree-resolved, for a document read in this build
LegacyDoctreeResolved ==
    /\ pc \in {"reading", "writing"}
    /\ pc' = "writing"
    /\ \E docname \in all_docs \ DOMAIN resolved, doctree \in Doctrees :
         /\ env' = legacy_doctree_resolved(env, doctree, docname)
         /\ resolved' = [d \in DOMAIN resolved \cup {docname} |->
                            IF d = docname THEN doctree ELSE resolved[d]]
         /\ call' = [hook |-> "doctree_resolved", docname |-> docname,
                     doctree_in |-> doctree,
                     doctree |-> legacy_walk(doctree, EmptyDict).node,
                     section_redirects |->
                         legacy_walk(doctree, EmptyDict).section_redirects,
                     root_section |->
                         legacy_find_root_section(doctree.children, 1, <<>>)]
    /\ UNCHANGED <<confpy, config, all_docs, copied, pure>>

\* html-collect-pages
LegacyHtmlCollectPages ==
    /\ pc \in {"reading", "writing"}
    /\ pc' = "collected"
    /\ call' = [hook |-> "html_collect_pages",
                ret |-> legacy_html_collect_pages(env, config)]
    /\ UNCHANGED <<confpy, config, all_docs, env, copied, resolved, pure>>

-----------------------------------------------------------------------------
(* sphinx.py: build_finished *)

\* the loop of build_finished: one copyfile per page that is not a directory
RECURSIVE write_extensionless(_, _, _)
write_extensionless(pages, i, dirs) ==
    IF i > Len(pages) THEN <<>>
    ELSE (IF pages[i] \in dirs THEN <<>>
          ELSE <<[source |-> pages[i] \o DOT_HTML, target |-> pages[i]]>>) \o
         write_extensionless(pages, i + 1, dirs)

\* build_finished(app, exception); dirs are the paths of outdir that are
\* directories.  getattr raises AttributeError when html_collect_pages did not
\* store the list.
BuildFinished ==
    /\ pc \in {"inited", "updated", "collected"}
    /\ \E exception \in {"None", "Exception"}, dirs \in SUBSET {<<"b">>} :
         /\ exception = "None" => pc = "collected"
         /\ LET writes == exception = "None"
                              /\ config.redirect_write_extensionless_pages
                raises == writes /\ ~HasAttr(env, ENV_EXTENSIONLESS_PAGES)
            IN /\ copied' = IF writes /\ ~raises
                            THEN copied \o write_extensionless(
                                     GetAttr(env, ENV_EXTENSIONLESS_PAGES), 1, dirs)
                            ELSE copied
               /\ call' = [hook |-> "build_finished", exception |-> exception,
                           dirs |-> dirs,
                           raised |-> IF raises THEN "AttributeError" ELSE "None"]
    /\ pc' = "finished"
    /\ UNCHANGED <<confpy, config, all_docs, env, resolved, pure>>

\* the host emits doctree-resolved for a document it has read: the handlers
\* setup connected to the event run, and setup connects none
EmitDoctreeResolved ==
    /\ pc = "updated"
    /\ \E docname \in all_docs \ DOMAIN resolved, doctree \in Doctrees :
         /\ env' = IF "doctree-resolved" \in SetupConnects
                   THEN doctree_resolved(env, doctree, docname)
                   ELSE env
         /\ resolved' = [d \in DOMAIN resolved \cup {docname} |->
                            IF d = docname THEN doctree ELSE resolved[d]]
         /\ call' = [hook |-> "doctree-resolved", docname |-> docname,
                     handlers |-> SetupConnects \cap {"doctree-resolved"}]
    /\ UNCHANGED <<confpy, config, all_docs, pc, copied, pure>>

Next ==
    \/ Setup
    \/ BuilderInited
    \/ EnvUpdated
    \/ EmitDoctreeResolved
    \/ HtmlPageContext
    \/ HtmlCollectPages
    \/ BuildFinished

Spec == Init /\ [][Next]_vars

-----------------------------------------------------------------------------
(* The handlers of sphinx.py that setup connects to no event, called directly *)

\* the documents named in the calls: a and o, and o is also an old URL of the
\* doctrees
ReadDocNames == { <<"a">>, <<"o">> }

\* app.config of the app the handlers are called on
HandlerConfigs ==
    { [html_baseurl |-> <<>>, redirects |-> EmptyDict],
      [html_baseurl |-> <<>>,
       redirects |-> <<[k |-> <<"b">>, v |-> <<"t">>]>>] }

\* the environment is new, or as builder_inited leaves it
InitHandlers ==
    /\ confpy = NoAttrs
    /\ config \in HandlerConfigs
    /\ all_docs = ReadDocNames
    /\ env \in {NoAttrs, builder_inited(NoAttrs, config)}
    /\ pc = "handlers"
    /\ call = [hook |-> "none"]
    /\ copied = <<>>
    /\ resolved = NoDocs
    /\ pure = [op |-> "none"]

NextHandlers ==
    \/ DoctreeResolved
    \/ EnvPurgeDoc
    \/ EnvMergeInfo

SpecHandlers == InitHandlers /\ [][NextHandlers]_vars

-----------------------------------------------------------------------------
(* The builds of a project that uses the legacy package *)

LegacyConfPys == { [html_baseurl |-> b] : b \in BaseUrls }

InitLegacy ==
    /\ confpy \in LegacyConfPys
    /\ config = [html_baseurl |-> confpy.html_baseurl]
    /\ all_docs = ReadDocNames
    /\ env = NoAttrs
    /\ pc = "new"
    /\ call = [hook |-> "none"]
    /\ copied = <<>>
    /\ resolved = NoDocs
    /\ pure = [op |-> "none"]

NextLegacy ==
    \/ LegacySetup
    \/ LegacyEnvPurgeDoc
    \/ LegacyEnvMergeInfo
    \/ LegacyDoctreeResolved
    \/ LegacyHtmlCollectPages

SpecLegacy == InitLegacy /\ [][NextLegacy]_vars

-----------------------------------------------------------------------------
(* Claims about the hooks (Spec) *)

\* the elements of a Python list
Elements(list) == {list[i] : i \in 1..Len(list)}

Enabled == HasAttr(env, ENV_REDIRECTS_ENABLED) /\ GetAttr(env, ENV_REDIRECTS_ENABLED)

\* C3: after setup followed by builder_inited the environment has the
\* 'computed-redirects' and the 'doctree-redirects' attribute, also with the
\* redirects option left at its default.
C3_BuilderInitedSetsAttributes ==
    call.hook = "builder_inited" =>
        /\ HasAttr(env, ENV_COMPUTED_REDIRECTS)
        /\ HasAttr(env, ENV_DOCTREE_REDIRECTS)

\* C4: after builder_inited and env_updated with a non-empty redirects option,
\* 'intra-page-fragment-pages' holds exactly the pages of the computed map
\* that are documents of the build, each once: the pages of the valid sources
\* of the option that are in all_docs.
C4_IntraPagesAreComputedDocuments ==
    (pc \in {"updated", "collected"} /\ config.redirects # EmptyDict) =>
        /\ HasAttr(env, ENV_INTRA_PAGE_FRAGMENT_PAGES)
        /\ HasAttr(env, ENV_COMPUTED_REDIRECTS)
        /\ LET intra == GetAttr(env, ENV_INTRA_PAGE_FRAGMENT_PAGES)
               computed == GetAttr(env, ENV_COMPUTED_REDIRECTS)
               inputs == [html_baseurl |-> config.html_baseurl,
                          url_path_prefix |-> config.url_path_prefix]
           IN /\ Elements(intra) = DictKeySet(computed) \cap all_docs
              /\ \A i, j \in 1..Len(intra) : intra[i] = intra[j] => i = j
              /\ Elements(intra) =
                     {PageOf(e.k) : e \in {x \in Elements(config.redirects) :
                                               C1Valid(inputs, x)}} \cap all_docs

\* the computed map has a page that is a document and a page that is not, and
\* the list holds only the document
C4_Witness ==
    /\ call.hook = "env_updated"
    /\ Enabled
    /\ all_docs = {<<"a">>}
    /\ DictKeySet(GetAttr(env, ENV_COMPUTED_REDIRECTS)) = {<<"a">>, <<"b">>}
    /\ GetAttr(env, ENV_INTRA_PAGE_FRAGMENT_PAGES) = << <<"a">> >>

\* C5: html_page_context returns the template name it was given; in an enabled
\* build, for a page of 'intra-page-fragment-pages' it sets
\* has_fragment_redirects to True and fragment_redirects to build_js_object of
\* the page's computed map, and for any other page it adds only
\* has_fragment_redirects = False; every other key of the context is kept.
C5_HtmlPageContext ==
    (call.hook = "html_page_context") =>
        /\ call.ret = call.templatename
        /\ Enabled =>
             LET intra == Elements(GetAttr(env, ENV_INTRA_PAGE_FRAGMENT_PAGES))
                 added == IF call.pagename \in intra
                          THEN {CTX_HAS_FRAGMENT_REDIRECTS, CTX_FRAGMENT_REDIRECTS}
                          ELSE {CTX_HAS_FRAGMENT_REDIRECTS}
             IN /\ DOMAIN call.context = DOMAIN call.context_in \cup added
                /\ \A key \in DOMAIN call.context_in \ added :
                       call.context[key] = call.context_in[key]
                /\ call.context[CTX_HAS_FRAGMENT_REDIRECTS] = (call.pagename \in intra)
                /\ call.pagename \in intra =>
                       call.context[CTX_FRAGMENT_REDIRECTS] =
                           build_js_object(
                               DictGet(GetAttr(env, ENV_COMPUTED_REDIRECTS),
                                       call.pagename))

\* the context of a document with two redirects was given its JS object
C5_Witness ==
    /\ call.hook = "html_page_context"
    /\ Enabled
    /\ call.pagename = <<"a">>
    /\ "title" \in DOMAIN call.context_in
    /\ DictHas(GetAttr(env, ENV_COMPUTED_REDIRECTS), <<"a">>)
    /\ Len(DictGet(GetAttr(env, ENV_COMPUTED_REDIRECTS), <<"a">>)) = 2
    /\ call.context[CTX_HAS_FRAGMENT_REDIRECTS]
    /\ "title" \in DOMAIN call.context

\* the tuples html_collect_pages returned for a page
TuplesOf(ret, page) == {i \in 1..Len(ret) : ret[i][1] = page}

\* C6: for a computed page that is not a document, html_collect_pages returns
\* (page, {'to_uri': t}, 'simpleredirect.html') when the page's map is exactly
\* {'-': t} and (page, {'fragment_redirects': build_js_object(map)},
\* 'redirect.html') when the map has more than one entry; a page that is a
\* document yields no tuple.
C6_CollectPagesShape ==
    (call.hook = "html_collect_pages" /\ Enabled) =>
        LET before == call.computed_before
            ret == call.ret
        IN \A x \in 1..Len(before) :
             LET page == before[x].k
                 pagemap == before[x].v
                 mine == TuplesOf(ret, page)
             IN /\ page \in all_docs => mine = {}
                /\ (page \notin all_docs /\ Len(pagemap) = 1
                       /\ pagemap[1].k = DEFAULT_PAGE) =>
                     /\ Cardinality(mine) = 1
                     /\ \A i \in mine :
                          /\ ret[i][3] = "simpleredirect.html"
                          /\ DOMAIN ret[i][2] = {"to_uri"}
                          /\ ret[i][2].to_uri = pagemap[1].v
                /\ (page \notin all_docs /\ Len(pagemap) > 1) =>
                     /\ Cardinality(mine) = 1
                     /\ \A i \in mine :
                          /\ ret[i][3] = "redirect.html"
                          /\ DOMAIN ret[i][2] = {"fragment_redirects"}
                          /\ ret[i][2].fragment_redirects = build_js_object(pagemap)

\* a page that is no document had a default and a fragment redirect, and one
\* 'redirect.html' tuple was returned for it
C6_Witness ==
    /\ call.hook = "html_collect_pages"
    /\ Enabled
    /\ all_docs = {<<"a">>}
    /\ DictKeys(call.computed_before) = << <<"b">> >>
    /\ DictKeys(call.computed_before[1].v) = << DEFAULT_PAGE, <<"f">> >>
    /\ Len(call.ret) = 1
    /\ call.ret[1][3] = "redirect.html"

\* the old URLs the seo-redirect directives of a tree declare in its sections
RECURSIVE C8Declared(_)
C8Declared(node) ==
    (IF node.kind = "section"
     THEN UNION {Elements(node.children[i].redirect_list) :
                    i \in {x \in 1..Len(node.children) :
                               node.children[x].kind = "SEORedirectNode"}}
     ELSE {}) \cup
    UNION {C8Declared(node.children[i]) : i \in 1..Len(node.children)}

\* C8: a redirect declared inline in a section of a document is emitted: once
\* the documents are resolved and html_collect_pages has returned, its list
\* holds a redirect page for every old URL declared in a resolved document.
C8_InlineRedirectEmitted ==
    call.hook = "html_collect_pages" =>
        \A docname \in DOMAIN resolved :
            \A old \in C8Declared(resolved[docname]) :
                TuplesOf(call.ret, old) # {}

\* the statement of C9 as written: once the computed map is stored, no step
\* changes it
C9_Original ==
    [][HasAttr(env, ENV_COMPUTED_REDIRECTS) =>
          /\ HasAttr(env', ENV_COMPUTED_REDIRECTS)
          /\ GetAttr(env', ENV_COMPUTED_REDIRECTS) = GetAttr(env, ENV_COMPUTED_REDIRECTS)
      ]_vars

\* new is old with a '-' entry for the target of its only entry put last
DefaultAdded(old, new) ==
    /\ Len(old) = 1
    /\ old[1].k # DEFAULT_PAGE
    /\ new = Append(old, [k |-> DEFAULT_PAGE, v |-> old[1].v])

\* C9 (amended): once env_updated has stored the computed map, no later hook
\* removes or changes an entry of it or adds a page, and html_page_context and
\* build_finished leave it as it is; html_collect_pages adds one entry, the
\* default-page key '-', to the map of every page that is not a document and
\* has a single redirect, for a fragment.  env_updated (compute_redirects)
\* does not modify the redirects option.
C9_ComputedMapStaticButDefaults ==
    [][/\ HasAttr(env, ENV_COMPUTED_REDIRECTS) =>
            /\ HasAttr(env', ENV_COMPUTED_REDIRECTS)
            /\ LET old == GetAttr(env, ENV_COMPUTED_REDIRECTS)
                   new == GetAttr(env', ENV_COMPUTED_REDIRECTS)
               IN /\ DictKeys(new) = DictKeys(old)
                  /\ \A x \in 1..Len(old) :
                        \/ new[x].v = old[x].v
                        \/ /\ call'.hook = "html_collect_pages"
                           /\ old[x].k \notin all_docs
                           /\ DefaultAdded(old[x].v, new[x].v)
                  /\ call'.hook = "html_collect_pages" =>
                        \A x \in 1..Len(old) :
                            (old[x].k \notin all_docs /\ Len(old[x].v) = 1
                                 /\ old[x].v[1].k # DEFAULT_PAGE)
                                => DefaultAdded(old[x].v, new[x].v)
       /\ call'.hook = "env_updated" => config' = config
      ]_vars

\* html_collect_pages has added a '-' entry to the stored map
C9_Witness ==
    /\ call.hook = "html_collect_pages"
    /\ Enabled
    /\ \E x \in 1..Len(call.computed_before) :
          /\ call.computed_before[x].v = <<[k |-> <<"f">>, v |-> <<"t">>]>>
          /\ GetAttr(env, ENV_COMPUTED_REDIRECTS)[x].v =
                 <<[k |-> <<"f">>, v |-> <<"t">>], [k |-> DEFAULT_PAGE, v |-> <<"t">>]>>

\* C10: with the redirects option empty at builder_inited the extension is
\* disabled for the whole build: 'redirects-enabled' is False, env_updated
\* returns an empty list and stores neither a computed map nor an intra-page
\* list, html_page_context returns the template name and leaves the context
\* unchanged, and html_collect_pages returns an empty list; with a non-empty
\* option builder_inited leaves 'redirects-enabled' True and
\* 'doctree-redirects' an empty map.
C10_EmptyOptionDisables ==
    /\ (pc \notin {"pure", "new", "setup"} /\ config.redirects = EmptyDict) =>
          /\ HasAttr(env, ENV_REDIRECTS_ENABLED)
          /\ GetAttr(env, ENV_REDIRECTS_ENABLED) = FALSE
          /\ ~HasAttr(env, ENV_COMPUTED_REDIRECTS)
          /\ ~HasAttr(env, ENV_INTRA_PAGE_FRAGMENT_PAGES)
          /\ call.hook = "env_updated" => call.ret = <<>>
          /\ call.hook = "html_page_context" =>
                 /\ call.ret = call.templatename
                 /\ call.context = call.context_in
          /\ call.hook = "html_collect_pages" => call.ret = <<>>
    /\ (call.hook = "builder_inited" /\ config.redirects # EmptyDict) =>
          /\ HasAttr(env, ENV_REDIRECTS_ENABLED)
          /\ GetAttr(env, ENV_REDIRECTS_ENABLED) = TRUE
          /\ HasAttr(env, ENV_DOCTREE_REDIRECTS)
          /\ GetAttr(env, ENV_DOCTREE_REDIRECTS) = EmptyDict

\* in a build without redirects, after html_collect_pages, html_page_context
\* was given a context with a key and returned
C10_Witness ==
    /\ config # [html_baseurl |-> confpy.html_baseurl]
    /\ config.redirects = EmptyDict
    /\ pc = "collected"
    /\ call.hook = "html_page_context"
    /\ "title" \in DOMAIN call.context_in
    /\ call.context = call.context_in

\* C13: for a computed page that is not a document and whose map has exactly
\* one entry, for a fragment other than '-', html_collect_pages adds a '-'
\* entry with that fragment's target to the page's map and returns one
\* 'redirect.html' tuple for the page, whose JS object holds the fragment entry
\* and the '-' entry.
C13_SingleFragmentGetsDefault ==
    (call.hook = "html_collect_pages" /\ Enabled) =>
        LET before == call.computed_before
            after == GetAttr(env, ENV_COMPUTED_REDIRECTS)
            ret == call.ret
        IN \A x \in 1..Len(before) :
             LET page == before[x].k
                 only == before[x].v[1]
                 both == <<only, [k |-> DEFAULT_PAGE, v |-> only.v]>>
                 mine == TuplesOf(ret, page)
             IN (page \notin all_docs /\ Len(before[x].v) = 1
                    /\ only.k # DEFAULT_PAGE) =>
                  /\ DictHas(after, page)
                  /\ DictGet(after, page) = both
                  /\ Cardinality(mine) = 1
                  /\ \A i \in mine :
                       /\ ret[i][3] = "redirect.html"
                       /\ DOMAIN ret[i][2] = {"fragment_redirects"}
                       /\ ret[i][2].fragment_redirects =
                              JS_HEAD \o C7Joined(both, 1) \o JS_TAIL

\* page b, no document, had the single redirect b#f -> t: one 'redirect.html'
\* tuple was returned for it, with both entries in its JS object
C13_Witness ==
    /\ call.hook = "html_collect_pages"
    /\ Enabled
    /\ all_docs = {<<"a">>}
    /\ call.computed_before = <<[k |-> <<"b">>,
                                 v |-> <<[k |-> <<"f">>, v |-> <<"t">>]>>]>>
    /\ Len(call.ret) = 1
    /\ call.ret[1][1] = <<"b">>
    /\ call.ret[1][3] = "redirect.html"
    /\ call.ret[1][2].fragment_redirects =
           JS_HEAD \o <<QUOTE, "f", QUOTE, COLON, QUOTE, "t", QUOTE, COMMA,
                        QUOTE, "-", QUOTE, COLON, QUOTE, "t", QUOTE>> \o JS_TAIL

\* the copies C14 expects of build_finished: '<page>.html' to '<page>' for each
\* page of the list that is no directory, in the list's order
C14Copies(pages, dirs) ==
    LET kept == SelectSeq(pages, LAMBDA page : page \notin dirs)
    IN [i \in 1..Len(kept) |-> [source |-> kept[i] \o DOT_HTML, target |-> kept[i]]]

\* C14: when redirect_write_extensionless_pages is true, html_collect_pages
\* stores in 'extensionless-pages' the page names of the tuples it returns, in
\* the same order, and build_finished with no exception copies '<page>.html'
\* to '<page>' for each of them that is no directory; when the flag is false
\* or the build ended with an exception, build_finished writes nothing.
C14_ExtensionlessPagesFollowTuples ==
    /\ (call.hook = "html_collect_pages"
            /\ config.redirect_write_extensionless_pages) =>
           /\ HasAttr(env, ENV_EXTENSIONLESS_PAGES)
           /\ GetAttr(env, ENV_EXTENSIONLESS_PAGES) =
                  [i \in 1..Len(call.ret) |-> call.ret[i][1]]
    /\ call.hook = "build_finished" =>
           IF call.exception = "None" /\ config.redirect_write_extensionless_pages
           THEN /\ call.raised = "None"
                /\ HasAttr(env, ENV_EXTENSIONLESS_PAGES)
                /\ copied = C14Copies(GetAttr(env, ENV_EXTENSIONLESS_PAGES),
                                      call.dirs)
           ELSE copied = <<>>

\* a target doctree_resolved records for a section of document docname
C15FromDocument(target, docname) ==
    target = docname \/ StartsWith(target, docname \o <<HASH>>)

\* the redirect maps kept on env
C15Maps == {name \in {SEO_REDIRECT_REDIRECTS, ENV_DOCTREE_REDIRECTS} :
                HasAttr(env, name)}

\* C15: once env_purge_doc(env, docname) has run, the stored redirect map
\* holds no redirect harvested from document docname, and when a document has
\* been resolved none of its redirects is recorded twice.
C15_PurgeRemovesDocument ==
    /\ call.hook = "env_purge_doc" =>
           \A name \in C15Maps : \A x \in 1..Len(GetAttr(env, name)) :
               \A target \in Elements(GetAttr(env, name)[x].v) :
                   ~C15FromDocument(target, call.docname)
    /\ call.hook = "doctree_resolved" =>
           \A name \in C15Maps : \A x \in 1..Len(GetAttr(env, name)) :
               LET targets == GetAttr(env, name)[x].v
               IN \A i, j \in 1..Len(targets) :
                      /\ C15FromDocument(targets[i], call.docname)
                      /\ targets[i] = targets[j]
                      => i = j

\* the root section in C16's words: the first id of the first top-level
\* section that has an id, or the empty string
C16Root(doctree) ==
    LET with_id == {i \in 1..Len(doctree.children) :
                        /\ doctree.children[i].kind = "section"
                        /\ Len(doctree.children[i].ids) > 0}
    IN IF with_id = {} THEN <<>>
       ELSE doctree.children[CHOOSE i \in with_id : \A j \in with_id : i <= j].ids[1]

\* the harvested (old URL, target) pairs of a document, in harvest order
RECURSIVE C16Pairs(_, _, _, _)
C16Pairs(section_redirects, docname, root, i) ==
    IF i > Len(section_redirects) THEN <<>>
    ELSE [j \in 1..Len(section_redirects[i].v) |->
             [old |-> section_redirects[i].v[j],
              target |-> IF section_redirects[i].k = root THEN docname
                         ELSE docname \o <<HASH>> \o section_redirects[i].k]]
         \o C16Pairs(section_redirects, docname, root, i + 1)

\* the targets of an old URL among pairs, in order
C16TargetsOf(pairs, old) ==
    LET mine == SelectSeq(pairs, LAMBDA pair : pair.old = old)
    IN [j \in 1..Len(mine) |-> mine[j].target]

\* the list env keeps for an old URL, empty when it keeps none
C16Kept(e, old) ==
    IF HasAttr(e, SEO_REDIRECT_REDIRECTS)
          /\ DictHas(GetAttr(e, SEO_REDIRECT_REDIRECTS), old)
    THEN DictGet(GetAttr(e, SEO_REDIRECT_REDIRECTS), old)
    ELSE <<>>
C16Olds(e) ==
    IF HasAttr(e, SEO_REDIRECT_REDIRECTS)
    THEN DictKeySet(GetAttr(e, SEO_REDIRECT_REDIRECTS))
    ELSE {}

\* C16: doctree_resolved records, for every old URL harvested from a section
\* of document docname, the target docname when the section is the root
\* section and docname#section_id otherwise; the targets are appended to the
\* list the old URL already has, in harvest order, and nothing else changes;
\* a document with no harvested redirect leaves the environment unchanged.
C16_DoctreeResolvedRecords ==
    [][call'.hook = "doctree_resolved" =>
          LET pairs == C16Pairs(call'.section_redirects, call'.docname,
                                C16Root(call'.doctree_in), 1)
              olds == {pairs[j].old : j \in 1..Len(pairs)}
          IN IF pairs = <<>> THEN env' = env
             ELSE /\ DOMAIN env' = DOMAIN env \cup {SEO_REDIRECT_REDIRECTS}
                  /\ \A name \in DOMAIN env \ {SEO_REDIRECT_REDIRECTS} :
                         env'[name] = env[name]
                  /\ C16Olds(env') = C16Olds(env) \cup olds
                  /\ \A old \in C16Olds(env') :
                         C16Kept(env', old) =
                             C16Kept(env, old) \o C16TargetsOf(pairs, old)
    ]_vars

\* document o was resolved after document a, both with a root section
\* redirected from o and a subsection redirected from o and q: the targets of
\* o were appended to those recorded for a
C16_Witness ==
    /\ call.hook = "doctree_resolved"
    /\ call.docname = <<"o">>
    /\ call.root_section = <<"s">>
    /\ HasAttr(env, SEO_REDIRECT_REDIRECTS)
    /\ GetAttr(env, SEO_REDIRECT_REDIRECTS) =
           <<[k |-> <<"o">>,
              v |-> << <<"a">>, <<"a", "#", "u">>, <<"o">>, <<"o", "#", "u">> >>],
             [k |-> <<"q">>,
              v |-> << <<"a", "#", "u">>, <<"o", "#", "u">> >>]>>

\* the sections of a tree
RECURSIVE C17Sections(_)
C17Sections(node) ==
    (IF node.kind = "section" THEN {node} ELSE {}) \cup
    UNION {C17Sections(node.children[i]) : i \in 1..Len(node.children)}

\* C17: after the walk, every SEORedirectNode that was a direct child of a
\* section with a non-empty id has its redirects recorded under that
\* section's id in section_redirects, and no SEORedirectNode remains among
\* the children of a section.
C17_WalkerHarvestsAndRemoves ==
    call.hook = "doctree_resolved" =>
        /\ \A section \in C17Sections(call.doctree_in) :
               (Len(section.ids) > 0 /\ section.ids[1] # <<>>) =>
                   \A i \in 1..Len(section.children) :
                       section.children[i].kind = "SEORedirectNode" =>
                           /\ DictHas(call.section_redirects, section.ids[1])
                           /\ Elements(section.children[i].redirect_list) \subseteq
                                  Elements(DictGet(call.section_redirects,
                                                   section.ids[1]))
        /\ \A section \in C17Sections(call.doctree) :
               \A i \in 1..Len(section.children) :
                   section.children[i].kind # "SEORedirectNode"

====
